---- MODULE Spec2Model ----
(***************************************************************************)
(* A model of the Art Intelligence Suite (src/main.py): the Streamlit      *)
(* session state, the catalog client, the web research collector and the   *)
(* chat turn.  One step of the model is one script run of main() started   *)
(* by one user event, together with the run that st.rerun() starts.        *)
(*                                                                         *)
(* Python values.  A dict is a record (a function on its keys); {} is the  *)
(* function with the empty domain.  None is the record PyNone when it      *)
(* stands for a whole object and the string JsonNull when it is a JSON     *)
(* leaf.  A str is a sequence of tokens; the tokens that matter are the    *)
(* two markers, whitespace, and two fragments that spell the start marker  *)
(* when they are adjacent.                                                 *)
(***************************************************************************)
EXTENDS Integers, Sequences, FiniteSets, TLC

VARIABLES
    session_state,       \* st.session_state: the seven session fields
    shown_artists,       \* the artist buttons the last selection screen rendered
    run,                 \* ghost: the last script run (its event, the exception that escaped it)
    listing,             \* ghost: the artwork-listing fetches completed for the current artist
    last_raw,            \* ghost: the outcome of the last inference call
    last_research,       \* ghost: the inputs of the last web research
    turn_artwork         \* ghost: for each turn of the transcript, the artwork it was submitted under

vars == <<session_state, shown_artists, run, listing, last_raw, last_research,
          turn_artwork>>

(***************************************************************************)
(* Bounds of the model.                                                    *)
(***************************************************************************)
MaxArtists == 2        \* artist ids 1..MaxArtists
MaxPage == 3           \* SpecListing: pages a listing is followed to, page numbers the catalog reports
MaxPageItems == 2      \* SpecListing: artworks on one page (at most ARTWORKS_PER_PAGE)
MaxSessionPage == 2    \* Spec: pages a listing is followed to
MaxSessionResults == 1 \* Spec: search results of a web research
MaxTurns == 2          \* Spec, SpecChat: chat turns submitted under one selection
MaxRawLen == 5         \* SpecStrip: tokens of a raw model output
LongPage == 5000       \* SpecResearch: the length of the longest page text

(***************************************************************************)
(* Program constants.                                                      *)
(***************************************************************************)
ARTWORKS_PER_PAGE == 5
MaxResults == 3
ExcerptLimit == 1500

Min(a, b) == IF a < b THEN a ELSE b

(***************************************************************************)
(* Python values.                                                          *)
(***************************************************************************)
PyNone == [none |-> TRUE]
EmptyDict == [k \in {} |-> k]
JsonNull == "null"

\* dict.get(key, default)
PyGet(d, key, default) == IF key \in DOMAIN d THEN d[key] ELSE default

\* bool(x) of an object that is None or a dict
Truthy(d) == d # PyNone /\ DOMAIN d # {}

NoException == "none"

(***************************************************************************)
(* Strings of the chat: sequences of tokens.                               *)
(***************************************************************************)
OPEN == "<think>"
CLOSE == "</think>"
WS == " "
FragHead == "<thi"
FragTail == "nk>"
Tokens == {OPEN, CLOSE, WS, "a", FragHead, FragTail}

\* Sequences over S of length at most n.
SeqUpTo(S, n) == UNION {[1..k -> S] : k \in 0..n}

\* A token sequence is the tokenisation of a string only if no start marker is
\* left spelled by two fragments.
Canonical(s) == \A i \in 1..(Len(s) - 1) : ~(s[i] = FragHead /\ s[i + 1] = FragTail)

RawStrings == {s \in SeqUpTo(Tokens, MaxRawLen) : Canonical(s)}

\* str.strip(): leading and trailing whitespace removed.
RECURSIVE LStrip(_)
LStrip(s) == IF s # <<>> /\ Head(s) = WS THEN LStrip(Tail(s)) ELSE s

RECURSIVE RStrip(_)
RStrip(s) == IF s # <<>> /\ s[Len(s)] = WS THEN RStrip(SubSeq(s, 1, Len(s) - 1)) ELSE s

Strip(s) == RStrip(LStrip(s))

\* The position of the first end marker after position i, 0 when there is none:
\* where the lazy .*? of the pattern stops.
FirstCloseAfter(s, i) ==
    IF \E q \in (i + 1)..Len(s) : s[q] = CLOSE
    THEN CHOOSE q \in (i + 1)..Len(s) :
             s[q] = CLOSE /\ \A r \in (i + 1)..(q - 1) : s[r] # CLOSE
    ELSE 0

\* A variant of the substitution whose .* is greedy: a match runs to the last
\* end marker.
LastClose(s) == CHOOSE q \in 1..Len(s) : s[q] = CLOSE /\ \A r \in (q + 1)..Len(s) : s[r] # CLOSE

RECURSIVE ReSubFromGreedy(_, _)
ReSubFromGreedy(s, i) ==
    IF i > Len(s) THEN <<>>
    ELSE IF s[i] = OPEN /\ FirstCloseAfter(s, i) # 0
         THEN ReSubFromGreedy(s, LastClose(s) + 1)
         ELSE <<s[i]>> \o ReSubFromGreedy(s, i + 1)

\* A variant that treats the end of the text as the end of an unterminated
\* segment.
RECURSIVE ReSubFromToEnd(_, _)
ReSubFromToEnd(s, i) ==
    IF i > Len(s) THEN <<>>
    ELSE IF s[i] = OPEN
         THEN IF FirstCloseAfter(s, i) # 0
              THEN ReSubFromToEnd(s, FirstCloseAfter(s, i) + 1)
              ELSE <<>>
         ELSE <<s[i]>> \o ReSubFromToEnd(s, i + 1)

\* re.sub(r'<think>.*?</think>', '', s, flags=re.DOTALL) from position i on:
\* at each position the pattern is tried; a match is dropped and the scan goes
\* on after it, a position with no match keeps its token.
RECURSIVE ReSubFrom(_, _)
ReSubFrom(s, i) ==
    IF i > Len(s) THEN <<>>
    ELSE IF s[i] = OPEN /\ FirstCloseAfter(s, i) # 0
         THEN ReSubFrom(s, FirstCloseAfter(s, i) + 1)
         ELSE <<s[i]>> \o ReSubFrom(s, i + 1)

ReSub(s) == ReSubFrom(s, 1)

(***************************************************************************)
(* The HTTP call of a catalog operation.  An outcome is a record with a    *)
(* kind and, when the kind is "ok", the JSON object of the body:           *)
(*   transport   requests.get raised (connection error, timeout)           *)
(*   status      raise_for_status() raised HTTPError                       *)
(*   not_json    the body is not JSON and response.json() raises           *)
(*               requests.exceptions.JSONDecodeError, a RequestException   *)
(*   not_json_value_error                                                  *)
(*               the same body under a requests build whose                *)
(*               response.json() raises a plain ValueError                 *)
(*   not_object  the body is JSON but not an object (a list): .get is      *)
(*               missing and the operation raises AttributeError           *)
(***************************************************************************)
HttpFailureKinds == {"transport", "status", "not_json", "not_json_value_error", "not_object"}
CatalogOps == {"get_artist_details", "search_artists", "get_random_artists",
               "get_artist_artworks", "get_artwork_details"}

HttpFail(kind) == [kind |-> kind, body |-> EmptyDict]
HttpOk(body) == [kind |-> "ok", body |-> body]
HttpFailures == {HttpFail(k) : k \in HttpFailureKinds}

\* except requests.RequestException: ConnectionError, Timeout, HTTPError and
\* requests.exceptions.JSONDecodeError are RequestExceptions.
IsRequestException(kind) == kind \in {"transport", "status", "not_json"}

\* The exception an outcome raises inside the try block.
RaisedBy(kind) ==
    CASE kind = "transport" -> "ConnectionError"
      [] kind = "status" -> "HTTPError"
      [] kind = "not_json" -> "JSONDecodeError"
      [] kind = "not_json_value_error" -> "ValueError"
      [] kind = "not_object" -> "AttributeError"
      [] OTHER -> NoException

Returned(value) == [raised |-> NoException, value |-> value]
Raised(exc) == [raised |-> exc, value |-> PyNone]

\* try: ... except requests.RequestException: return default
TryRequest(http, value, default) ==
    IF http.kind = "ok" THEN Returned(value)
    ELSE IF IsRequestException(http.kind) THEN Returned(default)
    ELSE Raised(RaisedBy(http.kind))

ArtistIds == 1..MaxArtists

get_artist_details(artist_id, http) ==
    LET data == PyGet(http.body, "data", EmptyDict)
    IN TryRequest(http,
           [id |-> PyGet(data, "id", artist_id),
            title |-> PyGet(data, "title", "Unknown Artist"),
            birth_date |-> PyGet(data, "birth_date", "Unknown"),
            death_date |-> PyGet(data, "death_date", "Unknown"),
            description |-> PyGet(data, "description", "No description available")],
           [id |-> artist_id, title |-> "Unknown Artist"])

search_artists(query, http) ==
    TryRequest(http, PyGet(http.body, "data", <<>>), <<>>)

get_random_artists(http) ==
    TryRequest(http, PyGet(http.body, "data", <<>>), <<>>)

get_artist_artworks(artist_id, page, http) ==
    TryRequest(http,
        [artworks |-> PyGet(http.body, "data", <<>>),
         pagination |-> PyGet(http.body, "pagination", EmptyDict)],
        [artworks |-> <<>>, pagination |-> EmptyDict])

get_artwork_details(artwork_id, http) ==
    LET data == PyGet(http.body, "data", EmptyDict)
    IN TryRequest(http,
           [id |-> PyGet(data, "id", artwork_id),
            title |-> PyGet(data, "title", "Untitled"),
            artist_title |-> PyGet(data, "artist_title", "Unknown"),
            date_display |-> PyGet(data, "date_display", "Unknown date"),
            medium_display |-> PyGet(data, "medium_display", "Unknown medium"),
            dimensions |-> PyGet(data, "dimensions", "N/A"),
            image_id |-> PyGet(data, "image_id", JsonNull),
            style_titles |-> PyGet(data, "style_titles", "[]")],
           EmptyDict)

\* The documented default of each operation.
DefaultOf(op, arg) ==
    CASE op = "get_artist_details" -> [id |-> arg, title |-> "Unknown Artist"]
      [] op = "get_artist_artworks" -> [artworks |-> <<>>, pagination |-> EmptyDict]
      [] op = "get_artwork_details" -> EmptyDict
      [] OTHER -> <<>>

(***************************************************************************)
(* What the catalog can answer.                                            *)
(***************************************************************************)
ArtistEntry(a) == [id |-> a, title |-> "Some Artist"]

ArtistLists ==
    {<<>>} \cup {<<ArtistEntry(a)>> : a \in ArtistIds}
           \cup {[a \in ArtistIds |-> ArtistEntry(a)]}

ArtistListHttp == {HttpOk([data |-> l]) : l \in ArtistLists} \cup {HttpOk(EmptyDict)} \cup HttpFailures

ArtistDetailsHttp(a) ==
    {HttpOk([data |-> [id |-> a, title |-> "Some Artist", birth_date |-> "1840",
                       death_date |-> "1926", description |-> "A painter"]])}
    \cup HttpFailures

\* The i-th artwork of a page.
ArtworkSummary(page, i) ==
    [id |-> (page - 1) * ARTWORKS_PER_PAGE + i, title |-> "Some Artwork",
     image_id |-> "img", date_display |-> "1900"]

PageItems(page, n) == [i \in 1..n |-> ArtworkSummary(page, i)]

\* What a specification lets the catalog answer to a listing request:
\* every pagination over the page numbers 1..pages, or only the pagination of
\* a catalog of exactly that many pages and the empty one; up to items
\* artworks on a page.  The pages of Spec are empty or hold a single artwork.
ListingProfile == [all |-> TRUE, pages |-> MaxPage, items |-> MaxPageItems]
SessionProfile == [all |-> FALSE, pages |-> MaxSessionPage, items |-> 1]

Paginations(profile, page) ==
    IF profile.all
    THEN {EmptyDict}
         \cup {[current_page |-> c] : c \in 1..profile.pages}
         \cup {[total_pages |-> t] : t \in 1..profile.pages}
         \cup {[current_page |-> c, total_pages |-> t] : c, t \in 1..profile.pages}
    ELSE {EmptyDict, [current_page |-> page, total_pages |-> profile.pages]}

ArtworksHttp(profile, page) ==
    {HttpOk([data |-> PageItems(page, n), pagination |-> pg]) :
        n \in 0..Min(profile.items, ARTWORKS_PER_PAGE), pg \in Paginations(profile, page)}
    \cup HttpFailures

ArtworkDetailsHttp ==
    {HttpOk([data |-> [title |-> "Some Artwork", artist_title |-> "Some Artist",
                       date_display |-> "1900", medium_display |-> "Oil on canvas",
                       dimensions |-> "10 x 10", image_id |-> "img",
                       style_titles |-> st]]) : st \in {"[Impressionism]", JsonNull}}
    \cup {HttpOk(EmptyDict)} \cup HttpFailures

(***************************************************************************)
(* The web research collector.  The outcome of a research is the outcome   *)
(* of the search and, for each result in rank order, the outcome of the    *)
(* page fetch:                                                             *)
(*   ok          a page whose extracted text has len characters            *)
(*   http_error  a response with an error status: requests.get does not    *)
(*               raise, and the page of the error is excerpted             *)
(*   exception   the fetch or the parse raised (or the result has no href) *)
(***************************************************************************)
FetchKinds == {"ok", "http_error", "exception"}

\* The text soup.get_text() extracts from the page of a result: len characters,
\* the i-th of them PageChar(r, i).
PageChar(r, i) == (i + r.href) % 7
PageText(r) == [i \in 1..r.len |-> PageChar(r, i)]

\* s[:n]
PySlice(s, n) == SubSeq(s, 1, Min(n, Len(s)))

\* Variants of the loop: one that stops at the first failing result, one whose
\* excerpt is one character short.
RECURSIVE CollectFromAborting(_, _)
CollectFromAborting(results, i) ==
    IF i > Len(results) THEN <<>>
    ELSE IF results[i].fetch = "exception"
         THEN <<>>
         ELSE <<[source |-> results[i].href,
                 content |-> PySlice(PageText(results[i]), ExcerptLimit)]>>
              \o CollectFromAborting(results, i + 1)

\* for result in search_results: try: ... context.append(...) except: continue
RECURSIVE CollectFrom(_, _)
CollectFrom(results, i) ==
    IF i > Len(results) THEN <<>>
    ELSE IF results[i].fetch = "exception"
         THEN CollectFrom(results, i + 1)
         ELSE <<[source |-> results[i].href,
                 content |-> PySlice(PageText(results[i]), ExcerptLimit)]>>
              \o CollectFrom(results, i + 1)

web_research_artwork(artwork_title, artist_name, research) ==
    IF research.search = "fail" THEN <<>> ELSE CollectFrom(research.results, 1)

SearchResult(href, fetch, len) == [href |-> href, fetch |-> fetch, len |-> len]

\* The results of a search: up to n results, ranked from 1, each with a fetch
\* outcome drawn from kinds and a text length drawn from lens.
ResultLists(n, kinds, lens) ==
    UNION {
      {[i \in 1..k |-> SearchResult(i, f[i], IF f[i] = "exception" THEN 0 ELSE l[i])] :
          f \in [1..k -> kinds], l \in [1..k -> lens]} : k \in 0..n}

Researches(n, kinds, lens) ==
    {[search |-> "fail", results |-> <<>>]}
    \cup {[search |-> "ok", results |-> rs] : rs \in ResultLists(n, kinds, lens)}

NoResearch == [artwork_id |-> 0, search |-> "none", results |-> <<>>]
EmptyResearch == [search |-> "ok", results |-> <<>>]

(***************************************************************************)
(* The chat turn.  The outcome of the inference call is its raw text or    *)
(* the failure of the call.                                                *)
(***************************************************************************)
InferenceFailures == {"unreachable", "timeout", "malformed"}

InferenceOk(raw) == [kind |-> "ok", raw |-> raw]
InferenceFail(kind) == [kind |-> kind, raw |-> <<>>]

\* ', '.join(artwork.get('style_titles', default)): a null list raises.
JoinRaises(style_titles) == style_titles = JsonNull

build_chat_context(ss) ==
    LET artist == ss.selected_artist
        artwork == ss.selected_artwork
    IN IF artist = PyNone \/ artwork = PyNone THEN Raised("AttributeError")
       ELSE IF JoinRaises(PyGet(artwork, "style_titles", "[]")) THEN Raised("TypeError")
       ELSE Returned(
              <<"## Artist Information:",
                <<"Name: ", PyGet(artist, "title", "Unknown")>>,
                <<"Lifespan: ", PyGet(artist, "birth_date", "Unknown"),
                  PyGet(artist, "death_date", "Unknown")>>,
                <<"Description: ", PyGet(artist, "description", "No description available")>>,
                "## Artwork Details:",
                <<"Title: ", PyGet(artwork, "title", "Untitled")>>,
                <<"Date: ", PyGet(artwork, "date_display", "Unknown")>>,
                <<"Medium: ", PyGet(artwork, "medium_display", "Unknown")>>,
                <<"Dimensions: ", PyGet(artwork, "dimensions", "N/A")>>,
                <<"Styles: ", PyGet(artwork, "style_titles", "[]")>>,
                "## Web Research Context:">>
              \o (IF ss.web_context # <<>>
                  THEN [i \in 1..Len(ss.web_context) |->
                           <<"### Source", i, ss.web_context[i].source,
                             ss.web_context[i].content>>]
                  ELSE <<"No additional web context found.">>))

\* f"Error generating response: {str(e)}"
ErrorReply(reason) == <<"Error generating response: ", reason>>

\* A variant without the try: a failed inference call raises to the caller.
generate_chat_response_uncaught(prompt, ss, inference) ==
    LET context == build_chat_context(ss)
    IN IF context.raised # NoException THEN Raised(context.raised)
       ELSE IF inference.kind = "ok"
            THEN Returned(Strip(ReSub(inference.raw)))
            ELSE Raised(inference.kind)

generate_chat_response(prompt, ss, inference) ==
    LET context == build_chat_context(ss)
    IN IF context.raised # NoException THEN Raised(context.raised)
       ELSE IF inference.kind = "ok"
            THEN Returned(Strip(ReSub(inference.raw)))
            ELSE Returned(ErrorReply(inference.kind))

(***************************************************************************)
(* The session.                                                            *)
(***************************************************************************)
InitialSession ==
    [selected_artist |-> PyNone,
     selected_artwork |-> PyNone,
     messages |-> <<>>,
     web_context |-> <<>>,
     artworks_list |-> <<>>,
     artworks_current_page |-> 1,
     has_more_artworks |-> TRUE]

\* The ghost record of a script run: the event that started it, the exception
\* that escaped it and the function it escaped from, and whether every catalog
\* call that absorbed a failed HTTP call returned its documented default.
RunOf(event, raised, origin, defaulted) ==
    [event |-> event, raised |-> raised, origin |-> origin, defaulted |-> defaulted]

\* Whether a catalog call that absorbed a failed HTTP call returned its default.
Defaulted(op, arg, http, result) ==
    IF http.kind # "ok" /\ result.raised = NoException
    THEN result.value = DefaultOf(op, arg)
    ELSE TRUE

\* The listing fetch a part of a run completed.
NoFetch == [done |-> FALSE, initial |-> FALSE, page |-> 0, nonempty |-> FALSE,
            pagination |-> EmptyDict]
Fetch(initial, page, response) ==
    [done |-> TRUE, initial |-> initial, page |-> page,
     nonempty |-> response.value.artworks # <<>>,
     pagination |-> response.value.pagination]

\* The result of a part of a script run: the session it leaves, the exception
\* that escaped it, whether its catalog calls degraded to their defaults, and
\* the listing fetch it completed.
Part(ss, raised, origin, defaulted, fetch) ==
    [ss |-> ss, raised |-> raised, origin |-> origin, defaulted |-> defaulted,
     fetch |-> fetch]

Quiet(ss) == Part(ss, NoException, "", TRUE, NoFetch)

\* pagination.get('current_page', 1) < pagination.get('total_pages', 1)
MorePages(pagination) ==
    PyGet(pagination, "current_page", 1) < PyGet(pagination, "total_pages", 1)

\* display_artwork_analysis() with no button pressed: the initial load.
display_artwork_analysis(ss, http) ==
    IF ~Truthy(ss.selected_artist) \/ "id" \notin DOMAIN ss.selected_artist
    THEN Quiet(ss)
    ELSE IF ss.artworks_list = <<>> /\ ss.has_more_artworks
    THEN LET artist_id == ss.selected_artist.id
             page == ss.artworks_current_page
             response == get_artist_artworks(artist_id, page, http)
             defaulted == Defaulted("get_artist_artworks", artist_id, http, response)
         IN IF response.raised # NoException
            THEN Part(ss, response.raised, "get_artist_artworks", defaulted, NoFetch)
            ELSE Part([ss EXCEPT !.artworks_list = response.value.artworks,
                                 !.has_more_artworks = MorePages(response.value.pagination)],
                      NoException, "", defaulted, Fetch(TRUE, page, response))
    ELSE Quiet(ss)

\* display_analysis_panel() with no chat input: the rendering reads the artwork.
display_analysis_panel(ss) ==
    IF ~Truthy(ss.selected_artwork)
    THEN Quiet(ss)
    ELSE IF "title" \notin DOMAIN ss.selected_artwork
            \/ "artist_title" \notin DOMAIN ss.selected_artwork
    THEN Part(ss, "KeyError", "display_analysis_panel", TRUE, NoFetch)
    ELSE IF JoinRaises(PyGet(ss.selected_artwork, "style_titles", "[N/A]"))
    THEN Part(ss, "TypeError", "display_analysis_panel", TRUE, NoFetch)
    ELSE Quiet(ss)

\* display_artist_selection() with an empty search box: the example artists.
display_artist_selection(ss, http) ==
    LET example_artists == get_random_artists(http)
        defaulted == Defaulted("get_random_artists", 0, http, example_artists)
    IN IF example_artists.raised # NoException
       THEN Part(ss, example_artists.raised, "get_random_artists", defaulted, NoFetch)
       ELSE Part(ss, NoException, "", defaulted, NoFetch)

\* main() with no widget event: the screen the session state selects.
main(ss, http) ==
    IF ~Truthy(ss.selected_artist) THEN display_artist_selection(ss, http)
    ELSE IF ~Truthy(ss.selected_artwork) THEN display_artwork_analysis(ss, http)
    ELSE display_analysis_panel(ss)

NoHttp == HttpOk(EmptyDict)

\* The outcomes of the one fetch main() makes in session state ss.
MainHttp(profile, ss) ==
    IF ~Truthy(ss.selected_artist) THEN ArtistListHttp
    ELSE IF ~Truthy(ss.selected_artwork) /\ ss.artworks_list = <<>> /\ ss.has_more_artworks
    THEN ArtworksHttp(profile, ss.artworks_current_page)
    ELSE {NoHttp}

(***************************************************************************)
(* The ghost of the listing: whether a fetch has completed for the current *)
(* artist, the last completed fetch, and whether the catalog has so far    *)
(* been regular: every fetch completed with a non-empty page and reported  *)
(* current_page = the page asked for and the same total_pages = N.         *)
(***************************************************************************)
NoListing == [fetched |-> FALSE, last |-> NoFetch, regular |-> TRUE, N |-> 0]

RegularFetch(l, f) ==
    /\ l.regular
    /\ f.nonempty
    /\ DOMAIN f.pagination = {"current_page", "total_pages"}
    /\ f.pagination.current_page = f.page
    /\ f.page <= f.pagination.total_pages
    /\ (l.N = 0 \/ l.N = f.pagination.total_pages)

ListingAfter(l, part) ==
    IF part.fetch.done
    THEN [fetched |-> TRUE, last |-> part.fetch,
          regular |-> RegularFetch(l, part.fetch),
          N |-> IF RegularFetch(l, part.fetch) THEN part.fetch.pagination.total_pages ELSE 0]
    ELSE IF part.origin = "get_artist_artworks"
    THEN [l EXCEPT !.regular = FALSE, !.N = 0]
    ELSE l

(***************************************************************************)
(* The handlers of the widget events: each is the code under its button,   *)
(* up to st.rerun().                                                       *)
(***************************************************************************)

\* A variant of the reset that leaves the transcript.
start_new_search_keeping_messages(ss) ==
    Quiet([ss EXCEPT !.selected_artist = PyNone,
                     !.selected_artwork = PyNone,
                     !.web_context = <<>>,
                     !.artworks_list = <<>>,
                     !.artworks_current_page = 1,
                     !.has_more_artworks = TRUE])

\* A variant of the reset that leaves the excerpts.
start_new_search_keeping_context(ss) ==
    Quiet([ss EXCEPT !.selected_artist = PyNone,
                     !.selected_artwork = PyNone,
                     !.messages = <<>>,
                     !.artworks_list = <<>>,
                     !.artworks_current_page = 1,
                     !.has_more_artworks = TRUE])

\* "Start New Search".
start_new_search(ss) ==
    Quiet([ss EXCEPT !.selected_artist = PyNone,
                     !.selected_artwork = PyNone,
                     !.messages = <<>>,
                     !.web_context = <<>>,
                     !.artworks_list = <<>>,
                     !.artworks_current_page = 1,
                     !.has_more_artworks = TRUE])

\* The button of a matching artist.
select_artist(ss, artist, http) ==
    LET artist_id == PyGet(artist, "id", 0)
        full_details == get_artist_details(artist_id, http)
        defaulted == Defaulted("get_artist_details", artist_id, http, full_details)
    IN IF full_details.raised # NoException
       THEN Part(ss, full_details.raised, "get_artist_details", defaulted, NoFetch)
       ELSE Part([ss EXCEPT !.selected_artist = full_details.value,
                            !.messages = <<>>,
                            !.artworks_list = <<>>,
                            !.artworks_current_page = 1,
                            !.has_more_artworks = TRUE],
                 NoException, "", defaulted, NoFetch)

\* A variant in which the button is there whatever has_more_artworks says.
LoadMoreRenderedAlways(ss) ==
    /\ Truthy(ss.selected_artist)
    /\ ~Truthy(ss.selected_artwork)
    /\ ss.artworks_list # <<>>

\* "Load More Artworks" is rendered.
LoadMoreRendered(ss) ==
    /\ Truthy(ss.selected_artist)
    /\ ~Truthy(ss.selected_artwork)
    /\ ss.artworks_list # <<>>
    /\ ss.has_more_artworks

\* A variant that takes has_more_artworks from the pagination of an empty page
\* too.
load_more_trusting(ss, http) ==
    LET artist_id == ss.selected_artist.id
        page == ss.artworks_current_page + 1
        s1 == [ss EXCEPT !.artworks_current_page = page]
        response == get_artist_artworks(artist_id, page, http)
        defaulted == Defaulted("get_artist_artworks", artist_id, http, response)
    IN IF response.raised # NoException
       THEN Part(s1, response.raised, "get_artist_artworks", defaulted, NoFetch)
       ELSE Part([s1 EXCEPT !.artworks_list = @ \o response.value.artworks,
                            !.has_more_artworks = MorePages(response.value.pagination)],
                 NoException, "", defaulted, Fetch(FALSE, page, response))

\* "Load More Artworks".
load_more(ss, http) ==
    LET artist_id == ss.selected_artist.id
        page == ss.artworks_current_page + 1
        s1 == [ss EXCEPT !.artworks_current_page = page]
        response == get_artist_artworks(artist_id, page, http)
        defaulted == Defaulted("get_artist_artworks", artist_id, http, response)
        new_artworks == response.value.artworks
    IN IF response.raised # NoException
       THEN Part(s1, response.raised, "get_artist_artworks", defaulted, NoFetch)
       ELSE IF new_artworks # <<>>
       THEN Part([s1 EXCEPT !.artworks_list = @ \o new_artworks,
                            !.has_more_artworks = MorePages(response.value.pagination)],
                 NoException, "", defaulted, Fetch(FALSE, page, response))
       ELSE Part([s1 EXCEPT !.has_more_artworks = FALSE],
                 NoException, "", defaulted, Fetch(FALSE, page, response))

\* "Analyze this artwork".
select_artwork(ss, artwork, http, research) ==
    LET artwork_id == PyGet(artwork, "id", 0)
        details == get_artwork_details(artwork_id, http)
        defaulted == Defaulted("get_artwork_details", artwork_id, http, details)
        s1 == [ss EXCEPT !.selected_artwork = details.value]
    IN IF details.raised # NoException
       THEN Part(ss, details.raised, "get_artwork_details", defaulted, NoFetch)
       ELSE IF "title" \notin DOMAIN s1.selected_artwork
               \/ "title" \notin DOMAIN s1.selected_artist
       THEN Part(s1, "KeyError", "display_artwork_analysis", defaulted, NoFetch)
       ELSE Part([s1 EXCEPT !.web_context =
                                web_research_artwork(s1.selected_artwork.title,
                                                     s1.selected_artist.title, research),
                            !.messages = <<>>],
                 NoException, "", defaulted, NoFetch)

\* The chat input.
submit_turn(ss, prompt, inference) ==
    LET s1 == [ss EXCEPT !.messages = Append(@, [role |-> "user", content |-> prompt])]
        response == generate_chat_response(prompt, s1, inference)
    IN IF response.raised # NoException
       THEN Part(s1, response.raised, "build_chat_context", TRUE, NoFetch)
       ELSE Quiet([s1 EXCEPT !.messages =
                                 Append(@, [role |-> "assistant", content |-> response.value])])

(***************************************************************************)
(* A step: the run of a handler and, when the handler reaches st.rerun(),  *)
(* the run of main() that follows.  An exception that escapes ends the     *)
(* run where it is raised; the session keeps what was assigned before.     *)
(***************************************************************************)
IsPrefix(s, t) == Len(s) <= Len(t) /\ SubSeq(t, 1, Len(s)) = s

\* The ghost of the transcript: the turns a step adds were submitted under the
\* artwork selected when it began.
TagsAfter(old, new, tags, artwork_id) ==
    IF IsPrefix(old, new)
    THEN tags \o [i \in 1..(Len(new) - Len(old)) |-> artwork_id]
    ELSE [i \in 1..Len(new) |-> artwork_id]

Rerun(handler, http) ==
    IF handler.raised = NoException
    THEN main(handler.ss, http)
    ELSE Part(handler.ss, handler.raised, handler.origin, TRUE, NoFetch)

Step(event, handler, http, base_listing) ==
    LET final == Rerun(handler, http)
    IN /\ session_state' = final.ss
       /\ run' = RunOf(event, final.raised, final.origin,
                       handler.defaulted /\ final.defaulted)
       /\ listing' = ListingAfter(ListingAfter(base_listing, handler), final)
       /\ turn_artwork' = TagsAfter(session_state.messages, final.ss.messages, turn_artwork,
                                    PyGet(session_state.selected_artwork, "id", 0))

Queries == {"Monet"}

\* The selection screen run with a query in the search box.
SearchArtists ==
    /\ ~Truthy(session_state.selected_artist)
    /\ \E query \in Queries, h1 \in ArtistListHttp, h2 \in ArtistListHttp :
         LET example_artists == get_random_artists(h1)
             artists == search_artists(query, h2)
             d1 == Defaulted("get_random_artists", 0, h1, example_artists)
             d2 == Defaulted("search_artists", 0, h2, artists)
         IN IF example_artists.raised # NoException
            THEN /\ shown_artists' = <<>>
                 /\ run' = RunOf("search", example_artists.raised, "get_random_artists", d1)
            ELSE IF artists.raised # NoException
            THEN /\ shown_artists' = <<>>
                 /\ run' = RunOf("search", artists.raised, "search_artists", d1 /\ d2)
            ELSE /\ shown_artists' = artists.value
                 /\ run' = RunOf("search", NoException, "", d1 /\ d2)
    /\ UNCHANGED <<session_state, listing, last_raw, last_research, turn_artwork>>

SelectArtistWith(profile) ==
    /\ ~Truthy(session_state.selected_artist)
    /\ \E idx \in 1..Len(shown_artists) :
         \E h1 \in ArtistDetailsHttp(shown_artists[idx].id) :
           LET handler == select_artist(session_state, shown_artists[idx], h1)
           IN \E h2 \in MainHttp(profile, handler.ss) :
                /\ Step("select_artist", handler, h2,
                        IF handler.raised = NoException THEN NoListing ELSE listing)
                /\ shown_artists' = IF handler.raised = NoException THEN <<>> ELSE shown_artists
    /\ UNCHANGED <<last_raw, last_research>>

LoadMoreWith(profile) ==
    /\ LoadMoreRendered(session_state)
    /\ session_state.artworks_current_page < profile.pages
    /\ \E h \in ArtworksHttp(profile, session_state.artworks_current_page + 1) :
         Step("load_more", load_more(session_state, h), NoHttp, listing)
    /\ UNCHANGED <<shown_artists, last_raw, last_research>>

SelectArtworkWith(idx, http, research) ==
    /\ Truthy(session_state.selected_artist)
    /\ ~Truthy(session_state.selected_artwork)
    /\ idx \in 1..Len(session_state.artworks_list)
    /\ LET artwork == session_state.artworks_list[idx]
           handler == select_artwork(session_state, artwork, http, research)
       IN /\ Step("select_artwork", handler, NoHttp, listing)
          /\ last_research' =
                 IF handler.raised = NoException
                 THEN [artwork_id |-> PyGet(artwork, "id", 0),
                       search |-> research.search, results |-> research.results]
                 ELSE last_research
    /\ UNCHANGED <<shown_artists, last_raw>>

\* The chat input is rendered: the panel above it rendered without raising.
ChatRendered(ss) ==
    /\ Truthy(ss.selected_artist)
    /\ Truthy(ss.selected_artwork)
    /\ display_analysis_panel(ss).raised = NoException

SubmitTurnWith(prompt, inference) ==
    /\ ChatRendered(session_state)
    /\ Step("submit_turn", submit_turn(session_state, prompt, inference), NoHttp, listing)
    /\ last_raw' = [prompt |-> prompt, kind |-> inference.kind, raw |-> inference.raw]
    /\ UNCHANGED <<shown_artists, last_research>>

NoTurn == [prompt |-> <<>>, kind |-> "none", raw |-> <<>>]

StartNewSearch ==
    /\ \E h \in ArtistListHttp :
         Step("reset", start_new_search(session_state), h, NoListing)
    /\ shown_artists' = <<>>
    /\ last_raw' = NoTurn
    /\ last_research' = NoResearch

\* A run with no widget event on the listing screen (on the analysis screen
\* such a run assigns nothing).
RefreshWith(profile) ==
    /\ Truthy(session_state.selected_artist)
    /\ ~Truthy(session_state.selected_artwork)
    /\ \E h \in MainHttp(profile, session_state) :
         Step("rerun", Quiet(session_state), h, listing)
    /\ UNCHANGED <<shown_artists, last_raw, last_research>>

(***************************************************************************)
(* Spec: the whole session, over a small catalog.                          *)
(***************************************************************************)
UserMessages == {<<"a", WS, "a">>}
SessionInferences == {InferenceOk(<<OPEN, "a", CLOSE, WS, "a">>), InferenceFail("timeout")}

SelectArtist == SelectArtistWith(SessionProfile)

LoadMore == LoadMoreWith(SessionProfile)

\* The researches of Spec: a page is fetched or the fetch raises.
SessionResearches == Researches(MaxSessionResults, {"ok", "exception"}, {1})

\* The research is made only when the handler reaches it.
SelectArtwork ==
    \E idx \in 1..Len(session_state.artworks_list), h \in ArtworkDetailsHttp :
        IF select_artwork(session_state, session_state.artworks_list[idx], h,
                          EmptyResearch).raised = NoException
        THEN \E research \in SessionResearches : SelectArtworkWith(idx, h, research)
        ELSE SelectArtworkWith(idx, h, EmptyResearch)

SubmitTurn ==
    /\ Len(session_state.messages) < 2 * MaxTurns
    /\ \E prompt \in UserMessages, inference \in SessionInferences :
         SubmitTurnWith(prompt, inference)

Refresh == RefreshWith(SessionProfile)

Init ==
    /\ session_state = InitialSession
    /\ shown_artists = <<>>
    /\ run = RunOf("start", NoException, "", TRUE)
    /\ listing = NoListing
    /\ last_raw = NoTurn
    /\ last_research = NoResearch
    /\ turn_artwork = <<>>

Next ==
    \/ SearchArtists
    \/ SelectArtist
    \/ LoadMore
    \/ SelectArtwork
    \/ SubmitTurn
    \/ StartNewSearch
    \/ Refresh

Spec == Init /\ [][Next]_vars

(***************************************************************************)
(* SpecListing: the selection and listing screens, over every pagination   *)
(* the catalog can report.                                                 *)
(***************************************************************************)
ListingSelectArtist == SelectArtistWith(ListingProfile)

ListingLoadMore == LoadMoreWith(ListingProfile)

ListingRefresh == RefreshWith(ListingProfile)

NextListing ==
    \/ SearchArtists
    \/ ListingSelectArtist
    \/ ListingLoadMore
    \/ StartNewSearch
    \/ ListingRefresh

SpecListing == Init /\ [][NextListing]_vars

(***************************************************************************)
(* Two states of Spec the other specifications start from: artist 1        *)
(* selected with a one-page listing loaded, and artwork 1 of it selected   *)
(* after a research that found nothing.                                    *)
(***************************************************************************)
FullArtistHttp(a) ==
    HttpOk([data |-> [id |-> a, title |-> "Some Artist", birth_date |-> "1840",
                      death_date |-> "1926", description |-> "A painter"]])
FullArtworkHttp ==
    HttpOk([data |-> [title |-> "Some Artwork", artist_title |-> "Some Artist",
                      date_display |-> "1900", medium_display |-> "Oil on canvas",
                      dimensions |-> "10 x 10", image_id |-> "img",
                      style_titles |-> "[Impressionism]"]])
OnePageHttp == HttpOk([data |-> PageItems(1, 1), pagination |-> EmptyDict])

ListingReadyPart ==
    main(select_artist(InitialSession, ArtistEntry(1), FullArtistHttp(1)).ss, OnePageHttp)

ListingReady ==
    /\ session_state = ListingReadyPart.ss
    /\ shown_artists = <<>>
    /\ run = RunOf("select_artist", NoException, "", TRUE)
    /\ listing = ListingAfter(NoListing, ListingReadyPart)
    /\ last_raw = NoTurn
    /\ last_research = NoResearch
    /\ turn_artwork = <<>>

ChatReady ==
    /\ session_state = select_artwork(ListingReadyPart.ss, ArtworkSummary(1, 1),
                                      FullArtworkHttp, EmptyResearch).ss
    /\ shown_artists = <<>>
    /\ run = RunOf("select_artwork", NoException, "", TRUE)
    /\ listing = ListingAfter(NoListing, ListingReadyPart)
    /\ last_raw = NoTurn
    /\ last_research = [artwork_id |-> 1, search |-> "ok", results |-> <<>>]
    /\ turn_artwork = <<>>

(***************************************************************************)
(* SpecChat: the chat of one selection, over every outcome of the          *)
(* inference call, from every state an artwork selection of Spec leaves    *)
(* with an artwork selected.                                               *)
(***************************************************************************)
ChatRaws == {<<OPEN, "a", CLOSE, WS, "a">>, <<OPEN, "a">>}
ChatInferences ==
    {InferenceOk(raw) : raw \in ChatRaws} \cup {InferenceFail(k) : k \in InferenceFailures}

ChatStart ==
    \E h \in ArtworkDetailsHttp, research \in SessionResearches :
        LET handler == select_artwork(ListingReadyPart.ss, ArtworkSummary(1, 1), h, research)
            final == Rerun(handler, NoHttp)
        IN /\ handler.raised = NoException
           /\ session_state = final.ss
           /\ shown_artists = <<>>
           /\ run = RunOf("select_artwork", final.raised, final.origin, TRUE)
           /\ listing = ListingAfter(NoListing, ListingReadyPart)
           /\ last_raw = NoTurn
           /\ last_research = [artwork_id |-> 1, search |-> research.search,
                               results |-> research.results]
           /\ turn_artwork = <<>>

ChatTurn ==
    /\ Len(session_state.messages) < 2 * MaxTurns
    /\ \E prompt \in UserMessages, inference \in ChatInferences :
         SubmitTurnWith(prompt, inference)

SpecChat == ChatStart /\ [][ChatTurn]_vars

(***************************************************************************)
(* SpecStrip: one chat turn, over every raw model output of the bound.     *)
(***************************************************************************)
StripTurn ==
    /\ session_state.messages = <<>>
    /\ \E prompt \in UserMessages, raw \in RawStrings :
         SubmitTurnWith(prompt, InferenceOk(raw))

SpecStrip == ChatReady /\ [][StripTurn]_vars

(***************************************************************************)
(* SpecResearch: one artwork selection, over every research outcome of up  *)
(* to MaxResults results and page texts around the excerpt limit.          *)
(***************************************************************************)
PageLengths == {0, 1, ExcerptLimit - 1, ExcerptLimit, ExcerptLimit + 1, LongPage}

ResearchSelect ==
    \E research \in Researches(MaxResults, FetchKinds, PageLengths) :
        SelectArtworkWith(1, FullArtworkHttp, research)

SpecResearch == ListingReady /\ [][ResearchSelect]_vars

(***************************************************************************)
(* The claims.                                                             *)
(***************************************************************************)
Messages == session_state.messages
ArtworkSelected == Truthy(session_state.selected_artwork)

PaginationState ==
    <<session_state.artworks_list, session_state.artworks_current_page,
      session_state.has_more_artworks>>

\* C1: over a catalog that has so far answered every listing request of the
\* current artist with a non-empty page k of N, has_more_artworks is true
\* exactly while the pages loaded, 1..k, are fewer than N; and once it is false
\* no step that keeps the artist changes artworks_list, artworks_current_page
\* or has_more_artworks: there is no "Load More" left to press.
C1_Regular ==
    (listing.fetched /\ listing.regular) =>
        /\ session_state.artworks_current_page <= listing.N
        /\ Len(session_state.artworks_list) >= session_state.artworks_current_page
        /\ session_state.has_more_artworks
               <=> (session_state.artworks_current_page < listing.N)

C1_Frozen ==
    (/\ listing.fetched /\ listing.regular
     /\ ~session_state.has_more_artworks
     /\ session_state'.selected_artist = session_state.selected_artist)
        => PaginationState' = PaginationState

C1_Pagination == C1_Regular /\ [][C1_Regular' /\ C1_Frozen]_vars

C1_Witness ==
    /\ listing.fetched /\ listing.regular
    /\ listing.N = 3
    /\ session_state.artworks_current_page = 3
    /\ run.event = "load_more"
    /\ ~session_state.has_more_artworks

\* C2 as stated: once a listing fetch has completed for the current artist,
\* has_more_artworks is true iff the pagination of the last fetched page has
\* current_page < total_pages.
C2_Original ==
    listing.fetched =>
        (session_state.has_more_artworks <=> MorePages(listing.last.pagination))

\* C2 as amended: once a listing fetch has completed for the current artist,
\* has_more_artworks is true iff the last completed fetch was the initial load
\* or returned at least one artwork, and its pagination has
\* current_page < total_pages (a missing field counting as 1).
C2_Amended ==
    listing.fetched =>
        (session_state.has_more_artworks
            <=> /\ listing.last.initial \/ listing.last.nonempty
                /\ MorePages(listing.last.pagination))

C2_Witness ==
    /\ listing.fetched
    /\ ~listing.last.initial
    /\ ~listing.last.nonempty
    /\ MorePages(listing.last.pagination)
    /\ ~session_state.has_more_artworks

\* C3: a submitted turn extends the transcript by exactly the user turn and
\* then one assistant turn, the stripped answer when the inference call
\* succeeds and the error string embedding the reason when it fails; the
\* transcript always alternates user, assistant.
C3_Alternates ==
    /\ Len(Messages) % 2 = 0
    /\ \A i \in 1..Len(Messages) :
         Messages[i].role = IF i % 2 = 1 THEN "user" ELSE "assistant"

C3_Appends ==
    run'.event = "submit_turn" =>
        session_state'.messages =
            Messages \o
            <<[role |-> "user", content |-> last_raw'.prompt],
              [role |-> "assistant",
               content |-> IF last_raw'.kind = "ok"
                           THEN Strip(ReSub(last_raw'.raw))
                           ELSE <<"Error generating response: ", last_raw'.kind>>]>>

C3_TwoTurns == C3_Alternates /\ [][C3_Alternates' /\ C3_Appends]_vars

C3_Witness ==
    /\ Len(Messages) = 4
    /\ Messages[2].content = <<"Error generating response: ", "timeout">>
    /\ last_raw.kind = "ok"
    /\ Messages[4].content = <<"a">>

\* C4: the selection of an artwork whose details call failed, and returned the
\* empty mapping, does not raise.
C4_SelectionDoesNotRaise ==
    (run.event = "select_artwork" /\ session_state.selected_artwork = EmptyDict)
        => run.raised = NoException

\* C5: no catalog operation raises to its caller, and each returns its
\* documented default when its HTTP call fails.
C5_CatalogTotal == run.origin \notin CatalogOps /\ run.defaulted

\* The raw output has a well-formed segment: a start marker with an end marker
\* after it.
HasSegment(raw) ==
    \E p \in 1..Len(raw) : raw[p] = OPEN /\ FirstCloseAfter(raw, p) # 0

FirstSegmentStart(raw) ==
    CHOOSE p \in 1..Len(raw) :
        /\ raw[p] = OPEN /\ FirstCloseAfter(raw, p) # 0
        /\ \A r \in 1..(p - 1) : ~(raw[r] = OPEN /\ FirstCloseAfter(raw, r) # 0)

\* The string of the tokens spells a start marker, an end marker.
SpellsOpen(s) ==
    \/ \E i \in 1..Len(s) : s[i] = OPEN
    \/ \E i \in 1..(Len(s) - 1) : s[i] = FragHead /\ s[i + 1] = FragTail
SpellsClose(s) == \E i \in 1..Len(s) : s[i] = CLOSE

Answered == run.event = "submit_turn" /\ last_raw.kind = "ok" /\ Len(Messages) = 2
Reply == Messages[2].content

\* C6 as stated: when the raw output has a well-formed segment, the assistant
\* content has lost at least the segment (its markers and its text) and spells
\* neither marker.
C6_Original ==
    (Answered /\ HasSegment(last_raw.raw)) =>
        /\ Len(Reply) <= Len(last_raw.raw)
               - (FirstCloseAfter(last_raw.raw, FirstSegmentStart(last_raw.raw))
                  - FirstSegmentStart(last_raw.raw) + 1)
        /\ ~SpellsOpen(Reply)
        /\ ~SpellsClose(Reply)

\* A scan of the raw output that is inside a segment from a start marker to
\* the next end marker: the tokens outside the segments, and whether every
\* marker belongs to a complete segment (no end marker outside one, no segment
\* left open at the end).
RECURSIVE OutsideText(_, _, _)
OutsideText(s, i, inside) ==
    IF i > Len(s) THEN <<>>
    ELSE IF inside THEN OutsideText(s, i + 1, s[i] # CLOSE)
    ELSE IF s[i] = OPEN THEN OutsideText(s, i + 1, TRUE)
    ELSE <<s[i]>> \o OutsideText(s, i + 1, FALSE)

RECURSIVE MarkersPaired(_, _, _)
MarkersPaired(s, i, inside) ==
    IF i > Len(s) THEN ~inside
    ELSE IF inside THEN MarkersPaired(s, i + 1, s[i] # CLOSE)
    ELSE IF s[i] = OPEN THEN MarkersPaired(s, i + 1, TRUE)
    ELSE s[i] # CLOSE /\ MarkersPaired(s, i + 1, FALSE)

WellPaired(raw) == HasSegment(raw) /\ MarkersPaired(raw, 1, FALSE)

\* C6 as amended: when every marker of the raw output belongs to a complete
\* segment, the assistant content is the text outside the segments, trimmed,
\* and none of the markers of the raw output is left in it.
C6_Amended ==
    (Answered /\ WellPaired(last_raw.raw)) =>
        /\ Reply = Strip(OutsideText(last_raw.raw, 1, FALSE))
        /\ \A i \in 1..Len(Reply) : Reply[i] \notin {OPEN, CLOSE}

C6_Witness ==
    /\ Answered
    /\ last_raw.raw = <<OPEN, "a", CLOSE, "a", WS>>
    /\ Reply = <<"a">>

\* C7: when the raw output has no start marker with an end marker after it,
\* the assistant content is the raw output with only the surrounding
\* whitespace trimmed.
NoCompletePair(raw) ==
    ~\E p, q \in 1..Len(raw) : p < q /\ raw[p] = OPEN /\ raw[q] = CLOSE

C7_NoOp ==
    (Answered /\ NoCompletePair(last_raw.raw)) => Reply = Strip(last_raw.raw)

C7_Witness ==
    /\ Answered
    /\ last_raw.raw = <<WS, CLOSE, OPEN, "a", WS>>
    /\ Reply = <<CLOSE, OPEN, "a">>

\* C8: the excerpts stored by an artwork selection are those of the results
\* whose fetch did not fail, in rank order, each the prefix of the page text of
\* length min(ExcerptLimit, length of the text); none when the search failed.
FetchSucceeded(r) == r.fetch # "exception"

C8_Excerpts ==
    (run.event = "select_artwork" /\ ArtworkSelected) =>
        LET succeeded == SelectSeq(last_research.results, FetchSucceeded)
            context == session_state.web_context
        IN IF last_research.search = "fail" THEN context = <<>>
           ELSE /\ Len(context) = Len(succeeded)
                /\ \A i \in 1..Len(context) :
                     /\ context[i].source = succeeded[i].href
                     /\ Len(context[i].content) = Min(ExcerptLimit, succeeded[i].len)
                     /\ \A j \in 1..Len(context[i].content) :
                          context[i].content[j] = PageChar(succeeded[i], j)

C8_Witness ==
    /\ run.event = "select_artwork" /\ ArtworkSelected
    /\ Len(last_research.results) = 3
    /\ last_research.results[1].len = LongPage
    /\ last_research.results[2].fetch = "exception"
    /\ last_research.results[3].len = ExcerptLimit - 1
    /\ Len(session_state.web_context) = 2
    /\ Len(session_state.web_context[1].content) = ExcerptLimit
    /\ Len(session_state.web_context[2].content) = ExcerptLimit - 1

\* C9: the transcript is empty after every artist selection, artwork selection
\* and reset; any other step leaves the recorded turns as a prefix of the new
\* transcript; and every turn was submitted under the selected artwork.
SelectionEvents == {"select_artist", "select_artwork", "reset"}

C9_Owned ==
    /\ run.event \in SelectionEvents => Messages = <<>>
    /\ Len(turn_artwork) = Len(Messages)
    /\ Messages # <<>> => ArtworkSelected
    /\ \A i \in 1..Len(turn_artwork) :
         turn_artwork[i] = session_state.selected_artwork.id

C9_AppendOnly ==
    run'.event \notin SelectionEvents => IsPrefix(Messages, session_state'.messages)

C9_Transcript == C9_Owned /\ [][C9_Owned' /\ C9_AppendOnly]_vars

C9_Witness ==
    /\ run.event = "submit_turn"
    /\ Len(Messages) = 4
    /\ session_state.selected_artwork.id = ARTWORKS_PER_PAGE + 1
    /\ turn_artwork = <<ARTWORKS_PER_PAGE + 1, ARTWORKS_PER_PAGE + 1,
                        ARTWORKS_PER_PAGE + 1, ARTWORKS_PER_PAGE + 1>>

\* C10: with no artwork selected web_context is empty, and with an artwork
\* selected it is what the collector returned when that artwork was selected.
C10_Excerpts ==
    IF ArtworkSelected
    THEN /\ last_research.artwork_id = session_state.selected_artwork.id
         /\ session_state.web_context =
                web_research_artwork(session_state.selected_artwork.title,
                                     session_state.selected_artist.title, last_research)
    ELSE session_state.web_context = <<>>

C10_Witness ==
    /\ ArtworkSelected
    /\ session_state.selected_artwork.id = ARTWORKS_PER_PAGE + 1
    /\ Len(session_state.web_context) = 1
    /\ Messages # <<>>
====
